---- MODULE Spec2Model ----
(***************************************************************************)
(* Model of the content access layer of the Paul-Chatterton portfolio     *)
(* site (src/unnamed/part_000): the defensive fetch wrapper               *)
(* fetchFromSanity and the helpers formatYear, truncateText, formatDate.  *)
(*                                                                         *)
(* JavaScript values are records [t, n, s]: t is the kind of the value,   *)
(* n its number (numbers, booleans as 0/1, arrays: their length) and s    *)
(* its text, a sequence of one-character strings.                          *)
(***************************************************************************)
EXTENDS Integers, Sequences, FiniteSets, TLC

VARIABLES calls, log, last, issued, store

vars == <<calls, log, last, issued, store>>

(* ------------------------------ bounds -------------------------------- *)

(* fetchFromSanity calls that can be in flight together *)
NumCalls == 2

(* longest of the short sample texts handed to truncateText *)
MaxLen == 3

(* --------------------------- JavaScript values ------------------------ *)

Val(t, n, s) == [t |-> t, n |-> n, s |-> s]

Null == Val("null", 0, <<>>)

Undefined == Val("undefined", 0, <<>>)

NaN == Val("nan", 0, <<>>)

Num(n) == Val("number", n, <<>>)

Str(s) == Val("string", 0, s)

Bool(b) == Val("boolean", IF b THEN 1 ELSE 0, <<>>)

Arr(len) == Val("array", len, <<>>)

Obj == Val("object", 0, <<>>)

NullProtoObj == Val("nullproto", 0, <<>>)

Sym == Val("symbol", 0, <<>>)

(* an outcome of a call: a normal return of a value, or a raised error *)
Return(v) == [kind |-> "return", val |-> v]

Throw(e) == [kind |-> "throw", val |-> Str(e)]

(* ------------------------------ the store ----------------------------- *)

Queries == {"*[_type == 'publication']", "*[_type == 'role'][0]"}

Errors == {<<"N", "e", "t">>, <<"G", "R", "O", "Q">>}

(* what a successful query can resolve with *)
StoreResults == {Null, Undefined, Str(<<>>), Arr(0), Arr(2), Obj}

(* the fallback argument as passed; Undefined is "no fallback supplied" *)
FallbackArgs == {Undefined, Arr(0), Str(<<"n", "/", "a">>)}

CallIds == 1..NumCalls

IdleCall == [pc |-> "idle", query |-> "", supplied |-> Undefined, fallback |-> Null,
             outcome |-> "none", result |-> Undefined, ret |-> Return(Undefined)]

NoCall == [op |-> "none", arg |-> Undefined, arg2 |-> Undefined, tz |-> 0,
           out |-> Return(Undefined)]

(* the client of the content store, as configured *)
ClientConfig ==
    [projectId |-> "ybrfxq5h", dataset |-> "production", useCdn |-> TRUE,
     apiVersion |-> "2024-01-01"]

(* calls: the frames of the fetchFromSanity calls; log: what console.error *)
(* has written; last: the most recent call of a helper; issued: how often *)
(* each call has invoked client.fetch; store: the revision of the         *)
(* dataset's content, which every accepted mutation moves on              *)
Init ==
    /\ calls = [c \in CallIds |-> IdleCall]
    /\ log = <<>>
    /\ last = NoCall
    /\ issued = [c \in CallIds |-> 0]
    /\ store = 0

(* ---------------------------- fetchFromSanity ------------------------- *)

(* a default parameter value replaces an argument that is undefined *)
DefaultParamMissing(arg, dflt) == arg

DefaultParam(arg, dflt) == IF arg = Undefined THEN dflt ELSE arg

(* a ?? b *)
NullishSwapped(a, b) == IF b = Null \/ b = Undefined THEN a ELSE b

LogicalOr(a, b) ==
    IF \/ a \in {Null, Undefined, NaN, Str(<<>>)}
       \/ (a.t \in {"number", "boolean"} /\ a.n = 0)
    THEN b ELSE a

NullishCoalesce(a, b) == IF a = Null \/ a = Undefined THEN b ELSE a

(* console.error('Sanity fetch error:', error) *)
LogEntry(e) == [msg |-> "Sanity fetch error:", error |-> e]

(* the call frame on entry: parameters bound, fallback defaulted to null *)
Entered(q, fb) == [IdleCall EXCEPT !.query = q, !.supplied = fb,
                                   !.fallback = DefaultParam(fb, Null)]

(* the try block after the await: return result ?? fallback *)
TryStaysSuspended(frame, r) ==
    [frame EXCEPT !.outcome = "resolved", !.result = r]

TryReturn(frame, r) ==
    [frame EXCEPT !.pc = "returned", !.outcome = "resolved", !.result = r,
                  !.ret = Return(NullishCoalesce(r, frame.fallback))]

(* the catch block: return fallback (the error is logged by the action) *)
CatchRethrows(frame, how, e) ==
    [frame EXCEPT !.pc = "returned", !.outcome = how, !.result = Str(e),
                  !.ret = Throw(e)]

CatchReturnShared(frame, how, e) ==
    LET others == {d \in CallIds : calls[d].pc = "awaiting" /\ calls[d] # frame}
        fb == IF others = {} THEN frame.fallback
              ELSE calls[CHOOSE d \in others : TRUE].fallback
    IN  [frame EXCEPT !.pc = "returned", !.outcome = how, !.result = Str(e),
                      !.ret = Return(fb)]

CatchReturn(frame, how, e) ==
    [frame EXCEPT !.pc = "returned", !.outcome = how, !.result = Str(e),
                  !.ret = Return(frame.fallback)]

(* the request client.fetch(query) sends: a query, signed with the       *)
(* client's token when the configuration holds one                       *)
FetchRequestPatches(q) ==
    [kind |-> "mutate", query |-> q, dataset |-> ClientConfig.dataset, signed |-> TRUE]

FetchRequest(q) ==
    [kind |-> "query", query |-> q, dataset |-> ClientConfig.dataset,
     signed |-> "token" \in DOMAIN ClientConfig]

(* the store takes a request: only a signed mutation changes the content *)
Serve(content, request) ==
    IF request.kind = "mutate" /\ request.signed THEN content + 1 ELSE content

(* client.fetch(query) is invoked by call c: once more than before      *)
(* (the variant before it answers a query already asked from memory)    *)
InvokeFetchCached(c, q) ==
    IF \E d \in CallIds \ {c} : calls[d].pc # "idle" /\ calls[d].query = q
    THEN issued
    ELSE [issued EXCEPT ![c] = @ + 1]

InvokeFetch(c, q) == [issued EXCEPT ![c] = @ + 1]

(* fetchFromSanity(query, fallback) up to its await: client.fetch(query) *)
(* sends the query, hands back a pending promise and the call is         *)
(* suspended                                                             *)
CallFetch(c, q, fb) ==
    /\ calls[c].pc = "idle"
    /\ calls' = [calls EXCEPT ![c] = [Entered(q, fb) EXCEPT !.pc = "awaiting"]]
    /\ issued' = InvokeFetch(c, q)
    /\ store' = Serve(store, FetchRequest(q))
    /\ UNCHANGED <<log, last>>

(* client.fetch(query) throws synchronously inside the try block, before *)
(* anything is sent                                                      *)
CallFetchThrows(c, q, fb, e) ==
    /\ calls[c].pc = "idle"
    /\ log' = Append(log, LogEntry(e))
    /\ calls' = [calls EXCEPT ![c] = CatchReturn(Entered(q, fb), "threw", e)]
    /\ issued' = InvokeFetch(c, q)
    /\ UNCHANGED <<last, store>>

(* the store answers with a result and the call resumes in the try block *)
StoreResolvesLogsAbsent(c, r) ==
    /\ calls[c].pc = "awaiting"
    /\ calls' = [calls EXCEPT ![c] = TryReturn(calls[c], r)]
    /\ log' = IF r \in {Null, Undefined} THEN Append(log, LogEntry(<<>>)) ELSE log
    /\ UNCHANGED <<last, issued, store>>

StoreResolves(c, r) ==
    /\ calls[c].pc = "awaiting"
    /\ calls' = [calls EXCEPT ![c] = TryReturn(calls[c], r)]
    /\ UNCHANGED <<log, last, issued, store>>

(* the store answers with an error: the await raises inside the try block *)
StoreRejects(c, e) ==
    /\ calls[c].pc = "awaiting"
    /\ log' = Append(log, LogEntry(e))
    /\ calls' = [calls EXCEPT ![c] = CatchReturn(calls[c], "rejected", e)]
    /\ UNCHANGED <<last, issued, store>>

(* ------------------------------ text helpers -------------------------- *)

Digits == <<"0", "1", "2", "3", "4", "5", "6", "7", "8", "9">>

DigitChar(d) == Digits[d + 1]

IsDigit(ch) == \E d \in 0..9 : Digits[d + 1] = ch

DigitValue(ch) == CHOOSE d \in 0..9 : Digits[d + 1] = ch

IsWhite(ch) == ch \in {" ", "\t", "\n"}

AllDigits(s) == s # <<>> /\ \A i \in 1..Len(s) : IsDigit(s[i])

RECURSIVE DigitsValue(_)
DigitsValue(s) ==
    IF s = <<>> THEN 0
    ELSE 10 * DigitsValue(SubSeq(s, 1, Len(s) - 1)) + DigitValue(s[Len(s)])

RECURSIVE NatToString(_)
NatToString(n) ==
    IF n < 10 THEN <<DigitChar(n)>>
    ELSE NatToString(n \div 10) \o <<DigitChar(n % 10)>>

(* Number.prototype.toString() on an integer or NaN *)
NumberToString(v) ==
    IF v.t = "nan" THEN <<"N", "a", "N">>
    ELSE IF v.n < 0 THEN <<"-">> \o NatToString(-v.n)
    ELSE NatToString(v.n)

RECURSIVE TrimStart(_)
TrimStart(s) == IF s # <<>> /\ IsWhite(Head(s)) THEN TrimStart(Tail(s)) ELSE s

RECURSIVE TrimEnd(_)
TrimEnd(s) ==
    IF s # <<>> /\ IsWhite(s[Len(s)]) THEN TrimEnd(SubSeq(s, 1, Len(s) - 1)) ELSE s

(* String.prototype.trim(): whitespace goes at both ends *)
Trim(s) == TrimEnd(TrimStart(s))

(* the literal of a string that is read as a number: StringToNumber *)
StringToNumber(s) ==
    LET t == Trim(s) IN
    IF t = <<>> THEN Num(0)
    ELSE IF AllDigits(t) THEN Num(DigitsValue(t))
    ELSE IF Head(t) = "-" /\ AllDigits(Tail(t)) THEN Num(-DigitsValue(Tail(t)))
    ELSE NaN

(* !v is true *)
Falsy(v) ==
    \/ v \in {Null, Undefined, NaN, Str(<<>>)}
    \/ (v.t \in {"number", "boolean"} /\ v.n = 0)

TypeError == <<"T", "y", "p", "e", "E", "r", "r", "o", "r">>

(* ToNumber(v), as the operators <= and slice apply it to an operand: an *)
(* array reads as the text of its elements (empty: 0, two or more        *)
(* elements: no number), a plain object as "[object Object]", a symbol   *)
(* and an object that has no primitive form raise a TypeError            *)
ToNumber(v) ==
    CASE v.t = "number" -> Return(v)
      [] v.t = "nan" -> Return(NaN)
      [] v.t = "null" -> Return(Num(0))
      [] v.t = "undefined" -> Return(NaN)
      [] v.t = "boolean" -> Return(Num(v.n))
      [] v.t = "string" -> Return(StringToNumber(v.s))
      [] v.t = "array" /\ v.n # 1 -> Return(IF v.n = 0 THEN Num(0) ELSE NaN)
      [] v.t = "object" -> Return(NaN)
      [] v.t = "nullproto" -> Throw(TypeError)
      [] v.t = "symbol" -> Throw(TypeError)

(* text.slice(0, end) for a number end: NaN counts as 0, a negative end  *)
(* counts from the end of the text                                       *)
SliceFromStart(s, end) ==
    LET e == IF end.t = "nan" THEN 0 ELSE end.n
        to == IF e < 0 THEN (IF Len(s) + e < 0 THEN 0 ELSE Len(s) + e)
              ELSE (IF e > Len(s) THEN Len(s) ELSE e)
    IN SubSeq(s, 1, to)

Ellipsis == <<".", ".", ".">>

(* ------------------------------- formatYear --------------------------- *)

TypeofNumberLoose(v) == v.t \in {"number", "nan"} \/ (v.t = "string" /\ AllDigits(v.s))

(* typeof v === 'number' *)
TypeofNumber(v) == v.t \in {"number", "nan"}

formatYear(year) ==
    IF TypeofNumber(year) THEN Return(Str(NumberToString(year))) ELSE Return(Str(<<>>))

(* ------------------------------ truncateText -------------------------- *)

DefaultMaxLength == 150

NotTextFalsyOnly(text) == Falsy(text)

(* !text || typeof text !== 'string' *)
NotText(text) == Falsy(text) \/ text.t # "string"

truncateText(text, maxLengthArg) ==
    LET maxLength == DefaultParam(maxLengthArg, Num(DefaultMaxLength))
        limit == ToNumber(maxLength)
    IN  IF NotText(text) THEN Return(Str(<<>>))
        ELSE IF limit.kind = "throw" THEN limit
        ELSE IF limit.val.t = "number" /\ Len(text.s) <= limit.val.n THEN Return(text)
        ELSE Return(Str(Trim(SliceFromStart(text.s, limit.val)) \o Ellipsis))

(* ------------------------------- formatDate --------------------------- *)

MonthNames ==
    << <<"J", "a", "n", "u", "a", "r", "y">>,
       <<"F", "e", "b", "r", "u", "a", "r", "y">>,
       <<"M", "a", "r", "c", "h">>,
       <<"A", "p", "r", "i", "l">>,
       <<"M", "a", "y">>,
       <<"J", "u", "n", "e">>,
       <<"J", "u", "l", "y">>,
       <<"A", "u", "g", "u", "s", "t">>,
       <<"S", "e", "p", "t", "e", "m", "b", "e", "r">>,
       <<"O", "c", "t", "o", "b", "e", "r">>,
       <<"N", "o", "v", "e", "m", "b", "e", "r">>,
       <<"D", "e", "c", "e", "m", "b", "e", "r">> >>

IsLeap(y) == (y % 4 = 0 /\ y % 100 # 0) \/ y % 400 = 0

DaysIn(y, m) ==
    IF m = 2 THEN (IF IsLeap(y) THEN 29 ELSE 28)
    ELSE IF m \in {4, 6, 9, 11} THEN 30 ELSE 31

InvalidDate == [valid |-> FALSE, y |-> 0, m |-> 0, d |-> 0]

DateOf(y, m, d) == [valid |-> TRUE, y |-> y, m |-> m, d |-> d]

(* Date.parse of a string: the date-only form YYYY-MM-DD is midnight UTC *)
(* of that day; text that is no date gives the invalid date              *)
ParseDate(s) ==
    IF /\ Len(s) = 10
       /\ s[5] = "-" /\ s[8] = "-"
       /\ \A i \in {1, 2, 3, 4, 6, 7, 9, 10} : IsDigit(s[i])
    THEN LET y == DigitsValue(SubSeq(s, 1, 4))
             m == DigitsValue(SubSeq(s, 6, 7))
             d == DigitsValue(SubSeq(s, 9, 10))
         IN  IF m \in 1..12 /\ d >= 1 /\ d <= DaysIn(y, m) THEN DateOf(y, m, d)
             ELSE InvalidDate
    ELSE InvalidDate

(* new Date(value): a string is parsed, an object is first turned into   *)
(* its text (which is no date), a number counts milliseconds from        *)
(* midnight UTC of 1 January 1970 (here: less than a second), a symbol   *)
(* or an object without primitive form raises a TypeError                *)
NewDate(v) ==
    CASE v.t = "string" -> Return(ParseDate(v.s))
      [] v.t \in {"object", "array"} -> Return(InvalidDate)
      [] v.t \in {"number", "boolean"} /\ v.n > 0 /\ v.n < 1000 -> Return(DateOf(1970, 1, 1))
      [] v.t \in {"nullproto", "symbol"} -> Throw(TypeError)

PrevDay(date) ==
    IF date.d > 1 THEN DateOf(date.y, date.m, date.d - 1)
    ELSE IF date.m > 1 THEN DateOf(date.y, date.m - 1, DaysIn(date.y, date.m - 1))
    ELSE DateOf(date.y - 1, 12, 31)

(* the calendar day, in the host's time zone (tz hours ahead of UTC,     *)
(* less than a day), of an instant in the first hour after midnight UTC  *)
(* of date                                                               *)
LocalDate(date, tz) == IF tz < 0 THEN PrevDay(date) ELSE date

(* the en-GB form with year numeric, month long, day numeric *)
FormatLong(date) ==
    NatToString(date.d) \o <<" ">> \o MonthNames[date.m] \o <<" ">> \o NatToString(date.y)

InvalidDateText == <<"I", "n", "v", "a", "l", "i", "d", " ", "D", "a", "t", "e">>

(* Date.prototype.toLocaleDateString('en-GB', {...}) in the host's zone *)
ToLocaleDateString(date, tz) ==
    IF date.valid THEN FormatLong(LocalDate(date, tz)) ELSE InvalidDateText

formatDate(dateString, tz) ==
    IF Falsy(dateString) THEN Return(Str(<<>>))
    ELSE LET date == NewDate(dateString)
         IN  IF date.kind = "throw" THEN Return(Str(<<>>))
             ELSE Return(Str(ToLocaleDateString(date.val, tz)))

(* --------------------------- calls of the helpers --------------------- *)

Alphabet == {"a", " "}

Texts == UNION {[1..n -> Alphabet] : n \in 0..MaxLen}

(* two texts beyond the default limit: one plain, one with a blank right *)
(* where the default limit cuts                                          *)
LongText == [i \in 1..(DefaultMaxLength + 50) |-> "a"]

LongSpaced == [i \in 1..(DefaultMaxLength + 50) |->
                  IF i \in {1, DefaultMaxLength} THEN " " ELSE "a"]

TextArgs ==
    {Str(s) : s \in Texts \cup {LongText, LongSpaced}}
        \cup {Null, Undefined, Num(0), Num(42), Bool(TRUE), Obj, Arr(2), Sym}

MaxLengthArgs ==
    {Num(n) : n \in (-2)..MaxLen}
        \cup {Undefined, Null, NaN, Str(<<"2">>), Str(<<"x">>), Obj, NullProtoObj, Sym}

YearArgs ==
    {Num(n) : n \in {-44, 0, 7, 1999, 2024}}
        \cup {NaN, Str(<<"2", "0", "2", "4">>), Str(<<>>), Null, Undefined,
              Bool(TRUE), Obj, Arr(0), Sym}

SampleDates ==
    {DateOf(2024, 3, 5), DateOf(2024, 3, 1), DateOf(2024, 1, 1),
     DateOf(2023, 12, 31), DateOf(2024, 2, 29), DateOf(2023, 11, 10)}

Pad2(n) == IF n < 10 THEN <<"0">> \o NatToString(n) ELSE NatToString(n)

(* the ISO-8601 date-only text of a date, as the content store holds it *)
IsoDate(date) ==
    NatToString(date.y) \o <<"-">> \o Pad2(date.m) \o <<"-">> \o Pad2(date.d)

NotADate == <<"n", "o", "t", "-", "a", "-", "d", "a", "t", "e">>

BadMonth == <<"2", "0", "2", "4", "-", "1", "3", "-", "0", "5">>

DateArgs ==
    {Str(IsoDate(date)) : date \in SampleDates}
        \cup {Null, Undefined, Str(<<>>), Num(0), Num(1), Str(NotADate), Str(BadMonth),
              Obj, Arr(0), NullProtoObj, Sym}

(* the host's time zone, in hours ahead of UTC *)
TimeZones == {-5, 0, 1}

CallFormatYear(year) ==
    /\ last' = [op |-> "formatYear", arg |-> year, arg2 |-> Undefined, tz |-> 0,
                out |-> formatYear(year)]
    /\ UNCHANGED <<calls, log, issued, store>>

CallTruncateText(text, maxLength) ==
    /\ last' = [op |-> "truncateText", arg |-> text, arg2 |-> maxLength, tz |-> 0,
                out |-> truncateText(text, maxLength)]
    /\ UNCHANGED <<calls, log, issued, store>>

CallFormatDate(dateString, tz) ==
    /\ last' = [op |-> "formatDate", arg |-> dateString, arg2 |-> Undefined, tz |-> tz,
                out |-> formatDate(dateString, tz)]
    /\ UNCHANGED <<calls, log, issued, store>>

HelperNext ==
    \/ \E year \in YearArgs : CallFormatYear(year)
    \/ \E text \in TextArgs, maxLength \in MaxLengthArgs : CallTruncateText(text, maxLength)
    \/ \E dateString \in DateArgs, tz \in TimeZones : CallFormatDate(dateString, tz)

HelperSpec == Init /\ [][HelperNext]_vars

Next ==
    \/ \E c \in CallIds, q \in Queries, fb \in FallbackArgs : CallFetch(c, q, fb)
    \/ \E c \in CallIds, q \in Queries, fb \in FallbackArgs, e \in Errors :
          CallFetchThrows(c, q, fb, e)
    \/ \E c \in CallIds, r \in StoreResults : StoreResolves(c, r)
    \/ \E c \in CallIds, e \in Errors : StoreRejects(c, e)

Spec == Init /\ [][Next]_vars

(* the store answers call c: with a result or with an error *)
StoreAnswers(c) ==
    \/ \E r \in StoreResults : StoreResolves(c, r)
    \/ \E e \in Errors : StoreRejects(c, e)

(* the store answers every query it is sent, sooner or later *)
LiveSpec == Spec /\ \A c \in CallIds : WF_vars(StoreAnswers(c))

(* all four operations interleaved: the helpers are called between the   *)
(* steps of the fetchFromSanity calls, on one input for each of their    *)
(* paths (a value returned, the guard taken, a conversion that raises)   *)
YearPaths == {Num(2024), Null}

TruncatePaths == {<<Str(<<"a", " ", "a">>), Num(2)>>, <<Str(<<"a">>), Sym>>}

DatePaths == {<<Str(NotADate), 0>>, <<Sym, 0>>}

AllNext ==
    \/ Next
    \/ \E year \in YearPaths : CallFormatYear(year)
    \/ \E p \in TruncatePaths : CallTruncateText(p[1], p[2])
    \/ \E p \in DatePaths : CallFormatDate(p[1], p[2])

AllSpec == Init /\ [][AllNext]_vars

(* ------------------------- claims: fetchFromSanity -------------------- *)

Returned(c) == calls[c].pc = "returned"

Failed(c) == Returned(c) /\ calls[c].outcome \in {"rejected", "threw"}

Resolved(c) == Returned(c) /\ calls[c].outcome = "resolved"

(* the fallback the caller is owed: the one supplied, null when none was *)
OwedFallback(c) == IF calls[c].supplied = Undefined THEN Null ELSE calls[c].supplied

(* "empty or absent" as the claims read it *)
EmptyOrAbsent(v) == v \in {Null, Undefined, Str(<<>>), Arr(0)}

(* C1: whatever the store call does (resolves, rejects, throws            *)
(* synchronously), a finished fetchFromSanity call has returned normally, *)
(* and what it returned is the store's result or the fallback.            *)
C1_NeverRaises ==
    \A c \in CallIds :
        Returned(c) =>
            /\ calls[c].ret.kind = "return"
            /\ \/ calls[c].ret.val = OwedFallback(c)
               \/ Resolved(c) /\ calls[c].ret.val = calls[c].result

C1_Witness ==
    \E c, d \in CallIds :
        /\ Failed(c) /\ calls[c].outcome = "threw"
        /\ Failed(d) /\ calls[d].outcome = "rejected"
        /\ calls[d].supplied # Undefined

(* C2: a call whose query resolved with a non-empty result returns that   *)
(* very result, whatever the fallback.                                    *)
C2_ResultReturned ==
    \A c \in CallIds :
        Resolved(c) /\ ~EmptyOrAbsent(calls[c].result) =>
            calls[c].ret = Return(calls[c].result)

C2_Witness ==
    \E c \in CallIds :
        /\ Resolved(c)
        /\ calls[c].result = Arr(2)
        /\ calls[c].supplied = Arr(0)

(* C3: a call whose query raised an error returns the supplied fallback,  *)
(* and null when none was supplied.                                       *)
C3_ErrorGivesFallback ==
    \A c \in CallIds :
        Failed(c) => calls[c].ret = Return(OwedFallback(c))

C3_Witness ==
    \E c, d \in CallIds :
        /\ Failed(c) /\ calls[c].supplied = Undefined /\ calls[c].ret = Return(Null)
        /\ Failed(d) /\ calls[d].supplied # Undefined

(* C4 as claimed: a query that resolved with an empty or absent result    *)
(* (null, undefined, empty list, empty string) returns the fallback.      *)
C4_Original ==
    \A c \in CallIds :
        Resolved(c) /\ EmptyOrAbsent(calls[c].result) =>
            calls[c].ret = Return(OwedFallback(c))

(* C4 amended: a query that resolved with null or undefined returns the   *)
(* supplied fallback (null when none was supplied); an empty list or an   *)
(* empty string is a result and is returned as it is.                     *)
C4_NullishGivesFallback ==
    \A c \in CallIds :
        Resolved(c) =>
            /\ calls[c].result \in {Null, Undefined} =>
                   calls[c].ret = Return(OwedFallback(c))
            /\ calls[c].result \in {Str(<<>>), Arr(0)} =>
                   calls[c].ret = Return(calls[c].result)

C4_Witness ==
    \E c, d \in CallIds :
        /\ Resolved(c) /\ calls[c].result = Undefined /\ calls[c].supplied # Undefined
        /\ Resolved(d) /\ calls[d].result = Str(<<>>) /\ calls[d].supplied # Undefined

(* --------------------------- claims: the helpers ---------------------- *)

Called(op) == last.op = op

Empty == Return(Str(<<>>))

(* C5: every call of every operation ends in a normal return, whatever   *)
(* the kind of its arguments.                                            *)
C5_Total ==
    /\ last.out.kind = "return"
    /\ \A c \in CallIds : Returned(c) => calls[c].ret.kind = "return"

(* C6: formatDate returns the empty string for every text that cannot be *)
(* parsed as a date.                                                     *)
C6_UnparseableGivesEmpty ==
    Called("formatDate") /\ last.arg.t = "string" /\ ~ParseDate(last.arg.s).valid
        => last.out = Empty

(* what C7 expects of a text longer than the limit: its first max        *)
(* characters, trailing whitespace removed, then the ellipsis            *)
FirstChars(s, n) == IF n <= 0 THEN <<>> ELSE SubSeq(s, 1, IF n > Len(s) THEN Len(s) ELSE n)

(* C7: for a string text and a maximum length max (150 when none is      *)
(* given), truncateText returns text unchanged when its length is at     *)
(* most max, and otherwise the first max characters of text with only    *)
(* trailing whitespace removed, followed by "...".                       *)
C7_RightTrimmedCut ==
    Called("truncateText") /\ last.arg.t = "string"
                           /\ last.arg2.t \in {"number", "undefined"} =>
        LET max == IF last.arg2 = Undefined THEN DefaultMaxLength ELSE last.arg2.n
            text == last.arg.s
        IN  last.out = IF Len(text) <= max THEN Return(Str(text))
                       ELSE Return(Str(TrimEnd(FirstChars(text, max)) \o Ellipsis))

(* C8: truncateText returns the empty string whenever text is null,      *)
(* undefined or not a string, for every maximum length.                  *)
C8_NonTextGivesEmpty ==
    Called("truncateText") /\ last.arg.t # "string" => last.out = Empty

C8_Witness ==
    /\ Called("truncateText")
    /\ last.arg = Num(42)
    /\ last.arg2 = Sym
    /\ last.out = Empty

March5Text == <<"5", " ", "M", "a", "r", "c", "h", " ", "2", "0", "2", "4">>

(* C10: formatDate returns the empty string for null, undefined and the  *)
(* empty string, and for a valid ISO-8601 date the text "day month-name  *)
(* year" of that date: formatDate("2024-03-05") is "5 March 2024".       *)
C10_LongFormOfTheDate ==
    Called("formatDate") =>
        /\ last.arg \in {Null, Undefined, Str(<<>>)} => last.out = Empty
        /\ last.arg.t = "string" /\ ParseDate(last.arg.s).valid =>
               last.out = Return(Str(FormatLong(ParseDate(last.arg.s))))
        /\ last.arg = Str(IsoDate(DateOf(2024, 3, 5))) => last.out = Return(Str(March5Text))

(* ------------------------- claims: log, store, calls ------------------ *)

(* the calls that finish with an error in the step at hand *)
NewlyFailed ==
    {c \in CallIds : /\ calls[c].pc # "returned"
                     /\ calls'[c].pc = "returned"
                     /\ calls'[c].outcome \in {"rejected", "threw"}}

(* C11: a log entry is written exactly when a store query raises: the    *)
(* step in which a call finishes with an error appends one entry that    *)
(* carries that error, and every other step (a query that succeeds, even *)
(* with an absent result, a call of formatYear, truncateText or          *)
(* formatDate) leaves the log as it is.                                  *)
C11_LogExactlyOnError ==
    [][IF NewlyFailed # {}
       THEN \E c \in NewlyFailed :
               /\ NewlyFailed = {c}
               /\ log' = Append(log, LogEntry(calls'[c].result.s))
       ELSE log' = log]_vars

C11_Witness ==
    /\ Len(log) = 1
    /\ \E c, d \in CallIds :
          /\ Failed(c) /\ log[1] = LogEntry(calls[c].result.s)
          /\ Resolved(d) /\ calls[d].result = Null
    /\ last.op = "formatDate" /\ last.arg = Sym

(* C12: the client is configured with a project id, a dataset name, the  *)
(* CDN flag and an API version and with no token, and whatever calls of  *)
(* fetchFromSanity were made, finished or failed, the content of the     *)
(* store is what it was.                                                 *)
C12_ReadOnly ==
    /\ DOMAIN ClientConfig = {"projectId", "dataset", "useCdn", "apiVersion"}
    /\ store = 0

C12_Witness ==
    /\ store = 0
    /\ \E c, d \in CallIds : Resolved(c) /\ Failed(d) /\ calls[d].outcome = "rejected"

(* C14: a fetchFromSanity call has invoked client.fetch exactly once     *)
(* from the moment it is suspended on, whatever its outcome and whatever *)
(* calls came before: no second attempt after a failure, and a query     *)
(* that another call already asked is asked again.                       *)
C14_OneQueryPerCall ==
    \A c \in CallIds : issued[c] = IF calls[c].pc = "idle" THEN 0 ELSE 1

C14_Witness ==
    \E c, d \in CallIds :
        /\ c # d
        /\ calls[c].query = calls[d].query
        /\ Failed(c) /\ issued[c] = 1
        /\ Resolved(d) /\ issued[d] = 1

YearUnknown == <<"Y", "e", "a", "r", " ", "u", "n", "k", "n", "o", "w", "n">>

(* C13: formatYear returns the text "Year unknown" whenever its argument *)
(* is missing (null or undefined).                                       *)
C13_MissingYearText ==
    Called("formatYear") /\ last.arg \in {Null, Undefined} =>
        last.out = Return(Str(YearUnknown))

(* what a call returns, by its own frame alone *)
OwnReturn(frame) ==
    LET owed == IF frame.supplied = Undefined THEN Null ELSE frame.supplied
    IN  Return(IF frame.outcome = "resolved" /\ frame.result \notin {Null, Undefined}
               THEN frame.result ELSE owed)

(* C15: calls in flight together do not interfere: a step of one call    *)
(* leaves the frame of every other call as it is, a call keeps its query *)
(* and its fallback from entry to return, and what it returns is the     *)
(* outcome of its own query or its own fallback.                         *)
C15_NoInterference ==
    [][\A c \in CallIds :
          calls'[c] # calls[c] =>
              /\ \A d \in CallIds \ {c} : calls'[d] = calls[d]
              /\ calls[c].pc # "idle" =>
                     /\ calls'[c].query = calls[c].query
                     /\ calls'[c].supplied = calls[c].supplied
                     /\ calls'[c].fallback = calls[c].fallback
              /\ calls'[c].pc = "returned" => calls'[c].ret = OwnReturn(calls'[c])]_vars

C15_Witness ==
    \E c, d \in CallIds :
        /\ c # d
        /\ calls[d].pc = "awaiting"
        /\ Failed(c) /\ calls[c].outcome = "rejected"
        /\ calls[c].supplied # calls[d].supplied
        /\ calls[c].query # calls[d].query
        /\ calls[c].ret = Return(OwedFallback(c))

(* C16: a suspended call returns once the store answers its query, and   *)
(* nothing but the store's answer ends the suspension: the wrapper has   *)
(* no timeout and no cancellation.                                       *)
C16_ReturnsWhenAnswered ==
    /\ \A c \in CallIds : (calls[c].pc = "awaiting") ~> (calls[c].pc = "returned")
    /\ [][\A c \in CallIds :
             calls[c].pc = "awaiting" /\ calls'[c] # calls[c] => StoreAnswers(c)]_vars

C16_Witness ==
    \E c, d \in CallIds :
        /\ Resolved(c)
        /\ Failed(d) /\ calls[d].outcome = "rejected"

(* C17: for a string text and an integer maxLength, zero and negative    *)
(* values included, truncateText returns at most max(maxLength, 0) + 3   *)
(* characters.                                                           *)
C17_LengthBounded ==
    Called("truncateText") /\ last.arg.t = "string" /\ last.arg2.t = "number" =>
        /\ last.out.kind = "return"
        /\ Len(last.out.val.s) <= (IF last.arg2.n > 0 THEN last.arg2.n ELSE 0) + 3

====
